---- MODULE Spec2Model ----
(***************************************************************************)
(* A model of the cursed-maze renderer core: the world utilities           *)
(* (normalize_range, distance_to), the camera (can_see, update_cam), the   *)
(* keyboard handler that drives it (move_camera), the rasterizer           *)
(* (draw_line, fill_triangle), the frame (render_frame) and the maze       *)
(* generator (Maze::new).                                                  *)
(*                                                                         *)
(* Numbers.  The program computes in f64; the model computes the same      *)
(* expressions exactly, on a grid fine enough to hold every value the      *)
(* modelled inputs produce:                                                *)
(*   - lengths are counted in 1/RENDER_FPS of a world unit, so one key     *)
(*     press (4.0 / RENDER_FPS) is 4 length units;                         *)
(*   - angles are counted in FRAC_PI_2/RENDER_FPS radians, so one key      *)
(*     press (FRAC_PI_2 / RENDER_FPS) is 1 angle unit and FRAC_PI_2 is     *)
(*     RENDER_FPS angle units;                                             *)
(*   - a square root is kept as the number under the root (F64Root), NaN   *)
(*     when that number is negative;                                       *)
(*   - the slopes and the fractional accumulators of draw_line,            *)
(*     fill_region_between_lines and fill_triangle are f64 numbers with    *)
(*     their rounding (F64_div, F64_add, F64_mul): a sum of thirds is not  *)
(*     a whole number there.                                               *)
(* cos, sin and atan2 are tabulated where their values lie on the grid     *)
(* (multiples of pi/2 for cos and sin, the eight compass rays for atan2);  *)
(* the inputs of the actions are drawn from those places.                  *)
(***************************************************************************)
EXTENDS Integers, Sequences, FiniteSets, TLC

VARIABLES camera, call, paints

vars == <<camera, call, paints>>

(***************************************************************************)
(* Program constants                                                       *)
(***************************************************************************)

\* render.rs: pub const RENDER_FPS: f64 = 30.0
RENDER_FPS == 30

\* world_translation.rs: Pillar::at((col * 4) as f64, (row * 4) as f64)
PillarSpacing == 4

\* length units per world unit
WorldUnit == RENDER_FPS

\* std::f64::consts::FRAC_PI_2 and PI, util.rs TWO_PI, in angle units
FRAC_PI_2 == RENDER_FPS
PI == 2 * FRAC_PI_2
TWO_PI == 2 * PI

(***************************************************************************)
(* Bounds of the model                                                     *)
(***************************************************************************)

\* normalize_range inputs: range starts, range widths, values
MaxStart == 2
MaxWidth == 20
MaxValue == 44

\* distance_to inputs: coordinates of the two entities
MaxCoord == 2

\* pillars stand at PillarSpacing * k world units, k in -MaxPillarIdx..MaxPillarIdx
MaxPillarIdx == 3

\* the camera stays within this many length units of the origin on each axis
MaxCamPos == 4

\* keys held down at once
MaxKeysDown == 2

\* screen coordinates handed to draw_line
MaxRow == 5
MaxCol == 3
MaxRegionRow == 3
MaxRegionCol == 2
MaxPillarDist == 6
MaxScreenRows == 9
MaxScreenCols == 6
MaxTurn == 1
MaxWalls == 2
SceneRows == 8
SceneCols == 12
MaxWallIdx == 2

\* maze cells of the wall comparisons: rows and columns 0..MaxCell
MaxCell == 1

\* Maze::new: rows in 0..MaxMazeRows, cols in 0..MaxMazeCols, portal_space in
\* 0..MaxPortalSpace
MaxMazeRows == 2
MaxMazeCols == 2
MaxPortalSpace == 3

(***************************************************************************)
(* f64 helpers                                                             *)
(***************************************************************************)

Abs(n) == IF n < 0 THEN -n ELSE n

Min(a, b) == IF a < b THEN a ELSE b

Max(a, b) == IF a < b THEN b ELSE a

\* a / b rounded toward zero: the `as i32` cast of a quotient
TruncDiv(a, b) ==
    IF (a >= 0) = (b > 0) THEN Abs(a) \div Abs(b) ELSE -(Abs(a) \div Abs(b))

\* the f64 `%` operator: the remainder takes the sign of the dividend
Rem(a, b) == a - b * TruncDiv(a, b)

\* --- f64 addition, division and multiplication with their rounding ---
\* An f64 of size below 2^15 is kept as a sign and a size in units of 2^-60,
\* the size as five digits of 15 bits, lowest first, the fifth the whole
\* part.  Every f64 of size 2^-7 to 2^15, and zero, is such a number; a
\* result is rounded to the 53 significant bits of an f64, ties to even.

\* bits per digit, and the digits of a size
LimbBits == 15
Limbs == 5

\* significant bits of an f64
F64_MANTISSA_DIGITS == 53

\* the digits after the carries have been passed up
RECURSIVE CarryInto(_, _)
CarryInto(digits, i) ==
    IF i = 0 THEN 0 ELSE (digits[i] + CarryInto(digits, i - 1)) \div 2 ^ LimbBits

Carried(digits) ==
    [i \in 1..Limbs |-> (digits[i] + CarryInto(digits, i - 1)) % 2 ^ LimbBits]

\* the number of bits of a natural number below 2^15
RECURSIVE BitsOf(_)
BitsOf(n) == IF n = 0 THEN 0 ELSE 1 + BitsOf(n \div 2)

\* the number of bits of a size, from its digit top down
RECURSIVE BitLength(_, _)
BitLength(digits, top) ==
    IF top = 0 THEN 0
    ELSE IF digits[top] # 0 THEN LimbBits * (top - 1) + BitsOf(digits[top])
    ELSE BitLength(digits, top - 1)

\* bit number i of a size, bit 0 the lowest
BitAt(digits, i) == (digits[i \div LimbBits + 1] \div 2 ^ (i % LimbBits)) % 2

\* the size with its n lowest bits cleared
BitsCleared(digits, n) ==
    [i \in 1..Limbs |->
        IF LimbBits * i <= n THEN 0
        ELSE IF LimbBits * (i - 1) < n
        THEN digits[i] - (digits[i] % 2 ^ (n - LimbBits * (i - 1)))
        ELSE digits[i]]

\* one unit added at bit n
BitAdded(digits, n) ==
    Carried([i \in 1..Limbs |->
                IF i = n \div LimbBits + 1
                THEN digits[i] + 2 ^ (n % LimbBits) ELSE digits[i]])

\* a size with drop bits too many rounded to the nearest f64, a tie to the
\* even one; inexact says that the size stands for a little more than itself
RoundedAt(digits, drop, inexact) ==
    IF drop <= 0 THEN digits
    ELSE IF /\ BitAt(digits, drop - 1) = 1
            /\ \/ inexact
               \/ BitsCleared(digits, drop - 1) # digits
               \/ BitAt(digits, drop) = 1
    THEN BitAdded(BitsCleared(digits, drop), drop)
    ELSE BitsCleared(digits, drop)

\* rounding to an f64
Rounded(digits, inexact) ==
    RoundedAt(digits, BitLength(digits, Limbs) - F64_MANTISSA_DIGITS, inexact)

\* an f64 from its sign and its size
F64(neg, mag) == [neg |-> neg, mag |-> mag]

\* 0.0
F64_ZERO == F64(FALSE, [i \in 1..Limbs |-> 0])

F64_is_zero(x) == x.mag = F64_ZERO.mag

\* the digits of the quotient remainder / divisor below digit i, and what
\* remains under the lowest
RECURSIVE RemainderAt(_, _, _)
RemainderAt(dividend, divisor, i) ==
    IF i = Limbs THEN dividend % divisor
    ELSE (RemainderAt(dividend, divisor, i + 1) * 2 ^ LimbBits) % divisor

QuotientDigit(dividend, divisor, i) ==
    IF i = Limbs THEN dividend \div divisor
    ELSE (RemainderAt(dividend, divisor, i + 1) * 2 ^ LimbBits) \div divisor

\* n as f64 / d as f64, d not 0
F64_div(n, d) ==
    IF n = 0 THEN F64_ZERO
    ELSE F64((n < 0) # (d < 0),
             Rounded([i \in 1..Limbs |-> QuotientDigit(Abs(n), Abs(d), i)],
                     RemainderAt(Abs(n), Abs(d), 1) # 0))

\* x + y for x and y of one sign, or either of them zero
F64_add(x, y) ==
    IF F64_is_zero(x) THEN y
    ELSE IF F64_is_zero(y) THEN x
    ELSE F64(x.neg, Rounded(Carried([i \in 1..Limbs |-> x.mag[i] + y.mag[i]]), FALSE))

\* x * (n as f64)
F64_mul(x, n) ==
    IF n = 0 \/ F64_is_zero(x) THEN F64_ZERO
    ELSE F64(x.neg # (n < 0),
             Rounded(Carried([i \in 1..Limbs |-> x.mag[i] * Abs(n)]), FALSE))

\* x as i32
F64_as_i32(x) == IF x.neg THEN -x.mag[Limbs] ELSE x.mag[Limbs]

\* x - ((x as i32) as f64): nothing is rounded away
F64_fract(x) == F64(x.neg, [x.mag EXCEPT ![Limbs] = 0])

\* x.abs() >= 1.0
F64_abs_ge_one(x) == x.mag[Limbs] >= 1

\* x.abs() > 1.0
F64_abs_gt_one(x) == x.mag[Limbs] >= 2 \/ (x.mag[Limbs] = 1 /\ F64_fract(x).mag # F64_ZERO.mag)

\* f64::sqrt, the result named by the number under the root
F64Root(radicand) ==
    [nan |-> radicand < 0, sq |-> IF radicand < 0 THEN 0 ELSE radicand]

\* root < bound for a root and a non-negative bound; false for NaN
RootLess(root, bound) == ~root.nan /\ root.sq < bound * bound

(***************************************************************************)
(* world/util.rs                                                           *)
(***************************************************************************)

Range(start, end) == [start |-> start, end |-> end]

\* normalize_range without the final shift back by range.start
normalize_range_no_shift(original_value, range) ==
    LET range_width == range.end - range.start
        aligned_value == original_value - range.start
        normalized_value == Rem(aligned_value, range_width)
    IN  IF normalized_value > 0
        THEN normalized_value
        ELSE normalized_value + range_width

\* normalize_range without the wrap of a negative remainder
normalize_range_no_wrap(original_value, range) ==
    LET range_width == range.end - range.start
        aligned_value == original_value - range.start
        normalized_value == Rem(aligned_value, range_width)
    IN  normalized_value + range.start

normalize_range(original_value, range) ==
    LET range_width == range.end - range.start
        aligned_value == original_value - range.start
        normalized_value == Rem(aligned_value, range_width)
        normalized_angle == IF normalized_value > 0
                            THEN normalized_value
                            ELSE normalized_value + range_width
    IN  normalized_angle + range.start

(***************************************************************************)
(* world/world_entity.rs                                                   *)
(***************************************************************************)

Entity(x, y) == [x_pos |-> x, y_pos |-> y]

distance_to(self, other) ==
    LET x_diff == other.x_pos - self.x_pos
        y_diff == other.y_pos - self.y_pos
    IN  F64Root(x_diff * x_diff - y_diff * y_diff)

(***************************************************************************)
(* world/camera.rs                                                         *)
(***************************************************************************)

Camera_new ==
    [x_pos |-> 0,
     y_pos |-> 0,
     facing_direction |-> 0,
     fov_angle |-> FRAC_PI_2,
     fill_screen_distance |-> 2 * WorldUnit,
     horizon_distance |-> 15 * WorldUnit]

\* the direction (x, y) lies on one of the eight compass rays, or is (0, 0)
OnCompassRay(x, y) == x = 0 \/ y = 0 \/ Abs(x) = Abs(y)

\* f64::atan2 on the compass rays, in (-PI, PI]; atan2(0, 0) is 0
atan2(y, x) ==
    CASE y = 0 /\ x >= 0 -> 0
      [] y = 0 /\ x < 0 -> PI
      [] x = 0 /\ y > 0 -> FRAC_PI_2
      [] x = 0 /\ y < 0 -> -FRAC_PI_2
      [] x > 0 /\ y = x -> FRAC_PI_2 \div 2
      [] x > 0 /\ y = -x -> -(FRAC_PI_2 \div 2)
      [] x < 0 /\ y = -x -> PI - FRAC_PI_2 \div 2
      [] x < 0 /\ y = x -> -(PI - FRAC_PI_2 \div 2)

\* f64::cos and f64::sin at the multiples of pi/2
cos(angle) ==
    CASE Rem(angle, TWO_PI) = 0 -> 1
      [] Abs(Rem(angle, TWO_PI)) = PI -> -1
      [] Abs(Rem(angle, TWO_PI)) \in {FRAC_PI_2, PI + FRAC_PI_2} -> 0

sin(angle) ==
    CASE Rem(angle, PI) = 0 -> 0
      [] Rem(angle, TWO_PI) \in {FRAC_PI_2, -(PI + FRAC_PI_2)} -> 1
      [] Rem(angle, TWO_PI) \in {-FRAC_PI_2, PI + FRAC_PI_2} -> -1

\* cos and sin are tabulated at this angle
OnAxis(angle) == Rem(angle, FRAC_PI_2) = 0

view_angle_from_center(self, other) ==
    LET camera_vector_angle ==
            atan2(other.y_pos - self.y_pos, other.x_pos - self.x_pos)
    IN  self.facing_direction - camera_vector_angle

can_see(self, other) ==
    LET angle_to_other == view_angle_from_center(self, other)
        view_angle == normalize_range(angle_to_other, Range(-PI, PI))
        half_fov_angle == self.fov_angle \div 2
    IN  /\ -half_fov_angle <= view_angle
        /\ view_angle < half_fov_angle
        /\ RootLess(distance_to(self, other), self.horizon_distance)

update_cam(self, diff_forward, diff_angle) ==
    LET new_angle ==
            normalize_range(self.facing_direction + diff_angle, Range(0, TWO_PI))
        \* 0.0 times a cosine or sine is 0.0 at every angle
        x_change == IF diff_forward = 0 THEN 0 ELSE diff_forward * cos(new_angle)
        y_change == IF diff_forward = 0 THEN 0 ELSE diff_forward * sin(new_angle)
    IN  [self EXCEPT !.x_pos = self.x_pos + x_change,
                     !.y_pos = self.y_pos + y_change,
                     !.facing_direction = new_angle]

(***************************************************************************)
(* input.rs                                                                *)
(***************************************************************************)

Keycodes ==
    {"W", "Up", "S", "Down", "A", "Left", "D", "Right", "Escape", "Q", "Space"}

\* how many of the keys in `keys` are held down
Held(keys_pressed, keys) == Cardinality(keys_pressed \cap keys)

\* move_camera: the deltas summed over the pressed keys, the command, and the
\* camera update_cam returns for them
move_camera_forward(keys_pressed) ==
    ((4 * WorldUnit) \div RENDER_FPS)
        * (Held(keys_pressed, {"W", "Up"}) - Held(keys_pressed, {"S", "Down"}))

move_camera_angle(keys_pressed) ==
    (FRAC_PI_2 \div RENDER_FPS)
        * (Held(keys_pressed, {"A", "Left"}) - Held(keys_pressed, {"D", "Right"}))

move_camera_command(keys_pressed) ==
    IF keys_pressed \cap {"Escape", "Q"} # {} THEN "Quit" ELSE "NoCommand"

move_camera(keys_pressed, camera_entity) ==
    [camera |-> update_cam(camera_entity,
                           move_camera_forward(keys_pressed),
                           move_camera_angle(keys_pressed)),
     command |-> move_camera_command(keys_pressed)]

(***************************************************************************)
(* curses_util/draw_2d.rs                                                  *)
(***************************************************************************)

Coordinate(row, col) == [row |-> row, col |-> col]

coord_shift(self, row_change, col_change) ==
    Coordinate(self.row + row_change, self.col + col_change)

\* one ncurses mvaddch(row, col, ch) call
mvaddch(row, col, ch) == [row |-> row, col |-> col, ch |-> ch]

\* the vertical branch with the last row included
draw_line_vertical_inclusive(lowest_row, highest_row, col, fill_char) ==
    [i \in 1..(highest_row - lowest_row + 1) |->
        mvaddch(lowest_row + i - 1, col, fill_char)]

\* the vertical branch of draw_line: for row in lowest_row..highest_row
draw_line_vertical(lowest_row, highest_row, col, fill_char) ==
    [i \in 1..(highest_row - lowest_row) |->
        mvaddch(lowest_row + i - 1, col, fill_char)]

\* the while loop of draw_line: the calls it makes and the row it ends on
RECURSIVE draw_line_rows(_, _, _, _, _)
draw_line_rows(rows_left_to_change, row_move, current_row, current_col, calls) ==
    IF rows_left_to_change = 0
    THEN [calls |-> calls, current_row |-> current_row]
    ELSE draw_line_rows(rows_left_to_change - row_move, row_move,
                        current_row + row_move, current_col,
                        Append(calls, mvaddch(current_row, current_col, "#")))

RECURSIVE draw_line_cols(_, _, _, _, _, _, _, _, _)

\* the for loop of draw_line goes on with the row the while loop ended on
draw_line_moved(idx, col_change, row_change, from_lowcol, moved_rows, total_row_change, row_change_per_col, fill_char) ==
    draw_line_cols(idx + 1, col_change, row_change, from_lowcol,
                   moved_rows.current_row, total_row_change,
                   row_change_per_col, fill_char, moved_rows.calls)

\* one pass of the for loop of draw_line after its mvaddch and its
\* total_row_change += row_change_per_col
draw_line_col(idx, col_change, row_change, from_lowcol, current_row, total_row_change, row_change_per_col, fill_char, calls) ==
    IF F64_abs_ge_one(total_row_change)
    THEN draw_line_moved(idx, col_change, row_change, from_lowcol,
                         draw_line_rows(F64_as_i32(total_row_change),
                                        IF row_change > 0 THEN 1 ELSE -1,
                                        current_row, from_lowcol.col + idx, calls),
                         F64_fract(total_row_change), row_change_per_col,
                         fill_char)
    ELSE draw_line_cols(idx + 1, col_change, row_change, from_lowcol,
                        current_row, total_row_change, row_change_per_col,
                        fill_char, calls)

\* the for loop of draw_line from column index idx on
draw_line_cols(idx, col_change, row_change, from_lowcol, current_row, total_row_change, row_change_per_col, fill_char, calls) ==
    IF idx > col_change
    THEN calls
    ELSE draw_line_col(idx, col_change, row_change, from_lowcol, current_row,
                       F64_add(total_row_change, row_change_per_col),
                       row_change_per_col, fill_char,
                       Append(calls, mvaddch(current_row, from_lowcol.col + idx,
                                             fill_char)))

\* draw_line: the sequence of mvaddch calls it makes
draw_line(from, to, fill_char) ==
    LET from_lowcol == IF from.col < to.col THEN from ELSE to
        to_highcol == IF from.col < to.col THEN to ELSE from
        col_change == to_highcol.col - from_lowcol.col
        row_change == to_highcol.row - from_lowcol.row
    IN  IF col_change = 0
        THEN draw_line_vertical(Min(from_lowcol.row, to_highcol.row),
                                Max(from_lowcol.row, to_highcol.row),
                                from_lowcol.col, fill_char)
        ELSE draw_line_cols(0, col_change, row_change, from_lowcol,
                            from_lowcol.row, F64_ZERO,
                            F64_div(row_change, col_change), fill_char, <<>>)

\* one column of fill_region_between_lines: for row in top_row..=bottom_row
fill_region_column(top_row, bottom_row, col, fill_char) ==
    [i \in 1..(bottom_row - top_row + 1) |->
        mvaddch(top_row + i - 1, col, fill_char)]

\* an edge tracker of fill_region_between_lines, its row, its accumulator
\* and its slope, after one column and its total += vertchange_per_col: the
\* row moves once the accumulator exceeds 1.0 in size
fill_region_track(row, total, vertchange_per_col) ==
    IF F64_abs_gt_one(total)
    THEN [row |-> row + F64_as_i32(total), total |-> F64_fract(total),
          vertchange_per_col |-> vertchange_per_col]
    ELSE [row |-> row, total |-> total,
          vertchange_per_col |-> vertchange_per_col]

\* the loop of fill_region_between_lines from column index idx on
RECURSIVE fill_region_cols(_, _, _, _, _, _, _)
fill_region_cols(idx, horiz_change, left_col, top, bottom, fill_char, calls) ==
    IF idx > horiz_change
    THEN calls
    ELSE fill_region_cols(idx + 1, horiz_change, left_col,
                          fill_region_track(top.row,
                                            F64_add(top.total, top.vertchange_per_col),
                                            top.vertchange_per_col),
                          fill_region_track(bottom.row,
                                            F64_add(bottom.total, bottom.vertchange_per_col),
                                            bottom.vertchange_per_col),
                          fill_char,
                          calls \o fill_region_column(top.row, bottom.row,
                                                      left_col + idx, fill_char))

\* with horiz_change = 0 an edge that changes row has an infinite slope:
\* the accumulator becomes +-inf, `as i32` saturates it to i32::MAX or
\* i32::MIN, and adding that to the row overflows an i32 for a row on the
\* same side of zero
fill_region_row_overflows(row, vertchange) ==
    \/ vertchange > 0 /\ row > 0
    \/ vertchange < 0 /\ row < 0

\* the row check placed ahead of the column check
fill_region_check_rows_first(top_leftmost, top_rightmost, bottom_leftmost, bottom_rightmost) ==
    IF \/ top_leftmost.row > bottom_leftmost.row
       \/ top_rightmost.row > bottom_rightmost.row
    THEN "TopIsBelowBottom"
    ELSE IF \/ top_leftmost.col # bottom_leftmost.col
            \/ top_rightmost.col # bottom_rightmost.col
    THEN "TopAndBottomDoNotAlign"
    ELSE "Ok"

\* the two checks of fill_region_between_lines on the normalised edges
fill_region_check(top_leftmost, top_rightmost, bottom_leftmost, bottom_rightmost) ==
    IF \/ top_leftmost.col # bottom_leftmost.col
       \/ top_rightmost.col # bottom_rightmost.col
    THEN "TopAndBottomDoNotAlign"
    ELSE IF \/ top_leftmost.row > bottom_leftmost.row
            \/ top_rightmost.row > bottom_rightmost.row
    THEN "TopIsBelowBottom"
    ELSE "Ok"

\* fill_region_between_lines: what it returns, the mvaddch calls it makes,
\* and whether its row arithmetic overflows an i32
fill_region_between_lines(top_line_start, top_line_end, bottom_line_start, bottom_line_end, fill_char) ==
    LET top_swapped == top_line_start.col > top_line_end.col
        top_leftmost == IF top_swapped THEN top_line_end ELSE top_line_start
        top_rightmost == IF top_swapped THEN top_line_start ELSE top_line_end
        bottom_swapped == bottom_line_start.col > bottom_line_end.col
        bottom_leftmost ==
            IF bottom_swapped THEN bottom_line_end ELSE bottom_line_start
        bottom_rightmost ==
            IF bottom_swapped THEN bottom_line_start ELSE bottom_line_end
        horiz_change == top_rightmost.col - top_leftmost.col
        top_vertchange == top_rightmost.row - top_leftmost.row
        bottom_vertchange == bottom_rightmost.row - bottom_leftmost.row
        checked == fill_region_check(top_leftmost, top_rightmost,
                                     bottom_leftmost, bottom_rightmost)
    IN  IF checked # "Ok"
        THEN [result |-> checked, calls |-> <<>>, overflow |-> FALSE]
        ELSE IF horiz_change = 0
        THEN [result |-> "Ok",
              calls |-> fill_region_column(top_leftmost.row,
                                           bottom_leftmost.row,
                                           top_leftmost.col, fill_char),
              overflow |->
                  \/ fill_region_row_overflows(top_leftmost.row,
                                               top_vertchange)
                  \/ fill_region_row_overflows(bottom_leftmost.row,
                                               bottom_vertchange)]
        ELSE [result |-> "Ok",
              calls |-> fill_region_cols(0, horiz_change, top_leftmost.col,
                                         [row |-> top_leftmost.row,
                                          total |-> F64_ZERO,
                                          vertchange_per_col |->
                                              F64_div(top_vertchange, horiz_change)],
                                         [row |-> bottom_leftmost.row,
                                          total |-> F64_ZERO,
                                          vertchange_per_col |->
                                              F64_div(bottom_vertchange, horiz_change)],
                                         fill_char, <<>>),
              overflow |-> FALSE]

\* corners.sort_by(|a, b| a.col.cmp(&b.col)): a stable sort, so corners of
\* one column keep their order
sort_by_col(corners) ==
    LET order == CHOOSE p \in [1..3 -> 1..3] :
                    /\ \A i, j \in 1..3 : i # j => p[i] # p[j]
                    /\ \A i, j \in 1..3 : i < j =>
                          \/ corners[p[i]].col < corners[p[j]].col
                          \/ /\ corners[p[i]].col = corners[p[j]].col
                             /\ p[i] < p[j]
    IN  [i \in 1..3 |-> corners[order[i]]]

\* the line of a one-column triangle drawn between the first and the last
\* of the sorted corners
fill_triangle_vertical_corners(low, mid, high, fill_char) ==
    draw_line(low, high, fill_char)

\* the three corners on one column: a line from the lowest of their rows to
\* the highest
fill_triangle_vertical(low, mid, high, fill_char) ==
    LET lowest_row == Min(Min(low.row, mid.row), Min(low.row, high.row))
        highest_row == Max(Max(low.row, mid.row), Max(low.row, high.row))
    IN  draw_line(Coordinate(lowest_row, low.col),
                  Coordinate(highest_row, low.col), fill_char)

\* the region filler called with the two edges exchanged
mapped_fill_region_edges_exchanged(part, top_start, top_end, bottom_start, bottom_end, fill_char) ==
    LET region == fill_region_between_lines(bottom_start, bottom_end, top_start,
                                            top_end, fill_char)
    IN  [result |-> IF region.result = "Ok" THEN "Ok" ELSE "FillErr",
         part |-> part,
         cause |-> region.result,
         calls |-> region.calls,
         regions |-> 1]

\* mapped_fill_region: the region filler's result with the part it was
\* called for; regions counts the calls of the region filler
mapped_fill_region(part, top_start, top_end, bottom_start, bottom_end, fill_char) ==
    LET region == fill_region_between_lines(top_start, top_end, bottom_start,
                                            bottom_end, fill_char)
    IN  [result |-> IF region.result = "Ok" THEN "Ok" ELSE "FillErr",
         part |-> part,
         cause |-> region.result,
         calls |-> region.calls,
         regions |-> 1]

\* a triangle that is one line: draw_line, and Ok
fill_triangle_line(from, to, fill_char) ==
    [result |-> "Ok", part |-> "None", cause |-> "Ok",
     calls |-> draw_line(from, to, fill_char), regions |-> 0]

\* fill_triangle: what it returns, the mvaddch calls it makes and how often
\* it calls the region filler
fill_triangle(corner1, corner2, corner3, fill_char) ==
    LET corners == sort_by_col(<<corner1, corner2, corner3>>)
        low == corners[1]
        mid == corners[2]
        high == corners[3]
    IN  IF low.row = mid.row /\ low.row = high.row
        THEN fill_triangle_line(low, high, fill_char)
        ELSE IF low.col = mid.col /\ low.col = high.col
        THEN [result |-> "Ok", part |-> "None", cause |-> "Ok",
              calls |-> fill_triangle_vertical(low, mid, high, fill_char),
              regions |-> 0]
        ELSE IF low.col = mid.col
        THEN IF low.row <= mid.row
             THEN mapped_fill_region("None", low, high, mid, high, fill_char)
             ELSE mapped_fill_region("None", mid, high, low, high, fill_char)
        ELSE IF mid.col = high.col
        THEN IF mid.row <= high.row
             THEN mapped_fill_region("None", low, mid, low, high, fill_char)
             ELSE mapped_fill_region("None", low, high, low, mid, fill_char)
        ELSE LET midpoint_distance == mid.col - low.col
                 longline_slope ==
                     F64_div(high.row - low.row, high.col - low.col)
                 midpoint_rowchange ==
                     F64_as_i32(F64_mul(longline_slope, midpoint_distance))
                 second_midpoint ==
                     Coordinate(low.row + midpoint_rowchange, mid.col)
                 upper_mid == IF second_midpoint.row <= mid.row
                              THEN second_midpoint ELSE mid
                 lower_mid == IF second_midpoint.row <= mid.row
                              THEN mid ELSE second_midpoint
                 first == mapped_fill_region("Some(1)", low, upper_mid, low,
                                             lower_mid, fill_char)
                 second == mapped_fill_region("Some(2)", upper_mid, high,
                                              lower_mid, high, fill_char)
             IN  IF second_midpoint.row = mid.row
                 THEN fill_triangle_line(low, high, fill_char)
                 ELSE IF first.result # "Ok"
                 THEN first
                 ELSE [second EXCEPT !.calls = first.calls \o second.calls,
                                     !.regions = 2]

(***************************************************************************)
(* render.rs: projection.  An f64 computed from a distance is kept exact,  *)
(* as the number (a + b * sqrt(sq)) / c with integers a, b, sq >= 0 and    *)
(* c > 0, or NaN.  On screens of fewer than 26 rows the f64 arithmetic     *)
(* truncates to the same rows as the exact number.                         *)
(***************************************************************************)

Surd(nan, a, b, sq, c) == [nan |-> nan, a |-> a, b |-> b, sq |-> sq, c |-> c]

\* the largest integer whose square is at most sq, sought between lo and hi
RECURSIVE FloorRootBetween(_, _, _)
FloorRootBetween(lo, hi, sq) ==
    IF lo = hi
    THEN lo
    ELSE LET middle == (lo + hi + 1) \div 2
         IN  IF middle * middle <= sq
             THEN FloorRootBetween(middle, hi, sq)
             ELSE FloorRootBetween(lo, middle - 1, sq)

FloorRoot(sq) == FloorRootBetween(0, Min(sq, 46340), sq)

\* b * sqrt(sq) >= k
SurdAtLeast(b, sq, k) ==
    IF b >= 0
    THEN k <= 0 \/ b * b * sq >= k * k
    ELSE k <= 0 /\ b * b * sq <= k * k

\* the largest integer that is at most x
SurdFloor(x) ==
    LET root == FloorRoot(x.sq)
        at_root == (x.a + x.b * root) \div x.c
        past_root == (x.a + x.b * (root + 1)) \div x.c
    IN  CHOOSE t \in (Min(at_root, past_root) - 1)..(Max(at_root, past_root) + 1) :
            /\ SurdAtLeast(x.b, x.sq, t * x.c - x.a)
            /\ ~SurdAtLeast(x.b, x.sq, (t + 1) * x.c - x.a)

SurdNeg(x) == [x EXCEPT !.a = -x.a, !.b = -x.b]

\* an integer plus x
SurdPlus(n, x) == [x EXCEPT !.a = x.a + n * x.c]

\* `as i32` of an f64: truncation toward zero, and 0 for NaN
as_i32(x) ==
    IF x.nan
    THEN 0
    ELSE IF SurdAtLeast(x.b, x.sq, -x.a)
    THEN SurdFloor(x)
    ELSE -SurdFloor(SurdNeg(x))

Scene_with_dimensions(screen_rows, screen_cols) ==
    [screen_rows |-> screen_rows, screen_cols |-> screen_cols]

\* a horizon rise of the opposite sign
horizon_rise_negated(half_screen_rows, pillar_dist, camera_entity) ==
    Surd(pillar_dist.nan,
         -half_screen_rows * camera_entity.horizon_distance,
         half_screen_rows,
         pillar_dist.sq,
         camera_entity.horizon_distance - camera_entity.fill_screen_distance)

\* half_screen_rows * (1.0 - (pillar_dist - fill) / (horizon - fill)), which
\* is half_screen_rows * (horizon - pillar_dist) / (horizon - fill)
horizon_rise(half_screen_rows, pillar_dist, camera_entity) ==
    Surd(pillar_dist.nan,
         half_screen_rows * camera_entity.horizon_distance,
         -half_screen_rows,
         pillar_dist.sq,
         camera_entity.horizon_distance - camera_entity.fill_screen_distance)

calculate_pillar_coords(self, camera_entity, pillar) ==
    LET pillar_dist == distance_to(camera_entity, pillar)
        pillar_ang ==
            normalize_range(view_angle_from_center(camera_entity, pillar),
                            Range(-PI, PI))
        half_screen_rows == TruncDiv(self.screen_rows, 2)
        half_screen_cols == TruncDiv(self.screen_cols, 2)
        rise == horizon_rise(half_screen_rows, pillar_dist, camera_entity)
        pillar_top == as_i32(SurdPlus(half_screen_rows, SurdNeg(rise)))
        pillar_bottom == as_i32(SurdPlus(half_screen_rows, rise))
        pillar_column ==
            TruncDiv(pillar_ang * self.screen_cols, camera_entity.fov_angle)
                + half_screen_cols
    IN  [line_top |-> Coordinate(pillar_top, pillar_column),
         line_bottom |-> Coordinate(pillar_bottom, pillar_column)]

(***************************************************************************)
(* world/pillar.rs                                                         *)
(***************************************************************************)

Wall_from_pillars(pillar1, pillar2) == [pillar1 |-> pillar1, pillar2 |-> pillar2]

in_camera_view(self, camera_entity) ==
    can_see(camera_entity, self.pillar1) \/ can_see(camera_entity, self.pillar2)

can_see_viewable(self, other) == in_camera_view(other, self)

\* render_frame takes camera.distance_to(wall), and no position of a Wall is
\* defined in the sources at hand: it is taken to be one of its pillars or
\* the point midway between them, the same for every wall of a run
WallAnchors == {"pillar1", "pillar2", "midpoint"}

Wall_position(self, anchor) ==
    CASE anchor = "pillar1" -> self.pillar1
      [] anchor = "pillar2" -> self.pillar2
      [] anchor = "midpoint" ->
            Entity((self.pillar1.x_pos + self.pillar2.x_pos) \div 2,
                   (self.pillar1.y_pos + self.pillar2.y_pos) \div 2)

(***************************************************************************)
(* render.rs: render_frame.  A frame is the sequence of steps it takes:    *)
(* clear, then for each wall it draws the mvaddch calls made for that      *)
(* wall, one after the other, then refresh.                                *)
(***************************************************************************)

FrameStep(fn, wall, calls) == [fn |-> fn, wall |-> wall, calls |-> calls]

\* walls.iter().filter(can_see_viewable): the indices of the visible walls
visible_walls(camera_entity, walls) ==
    SelectSeq([i \in 1..Len(walls) |-> i],
              LAMBDA i : can_see_viewable(camera_entity, walls[i]))

\* the sort key of a wall, before NotNan::new
sort_key(camera_entity, wall, anchor) ==
    distance_to(camera_entity, Wall_position(wall, anchor))

\* sort_by_cached_key returns at once on fewer than two elements, and
\* otherwise computes every key: NotNan::new(..).expect(..) panics on a NaN
sort_panics(camera_entity, walls, visible, anchor) ==
    /\ Len(visible) >= 2
    /\ \E i \in 1..Len(visible) :
           sort_key(camera_entity, walls[visible[i]], anchor).nan

\* sort_by_cached_key, a stable sort by ascending key, then reverse
sort_then_reverse(camera_entity, walls, visible, anchor) ==
    LET n == Len(visible)
        key(i) == sort_key(camera_entity, walls[visible[i]], anchor).sq
        order == CHOOSE p \in [1..n -> 1..n] :
                    /\ \A i, j \in 1..n : i # j => p[i] # p[j]
                    /\ \A i, j \in 1..n : i < j =>
                          \/ key(p[i]) < key(p[j])
                          \/ key(p[i]) = key(p[j]) /\ p[i] < p[j]
    IN  [i \in 1..n |-> visible[order[n + 1 - i]]]

\* the two fill_triangle calls between the pillar lines, made if more than
\* two columns lie between them; their results are dropped
fill_wall(left_pillar_coords, right_pillar_coords) ==
    IF right_pillar_coords.line_top.col - left_pillar_coords.line_top.col > 2
    THEN fill_triangle(coord_shift(left_pillar_coords.line_top, 1, 1),
                       coord_shift(left_pillar_coords.line_bottom, -1, 1),
                       coord_shift(right_pillar_coords.line_top, 1, -1),
                       ".").calls
         \o fill_triangle(coord_shift(left_pillar_coords.line_bottom, -1, 1),
                          coord_shift(right_pillar_coords.line_top, 1, -1),
                          coord_shift(right_pillar_coords.line_bottom, -1, -1),
                          ".").calls
    ELSE <<>>

\* the four draw_line calls of a wall
outline_wall(pillar1_screen_coords, pillar2_screen_coords) ==
    draw_line(pillar1_screen_coords.line_top,
              pillar1_screen_coords.line_bottom, "#")
    \o draw_line(pillar2_screen_coords.line_top,
                 pillar2_screen_coords.line_bottom, "#")
    \o draw_line(pillar1_screen_coords.line_top,
                 pillar2_screen_coords.line_top, "#")
    \o draw_line(pillar1_screen_coords.line_bottom,
                 pillar2_screen_coords.line_bottom, "#")

\* the mvaddch calls for a wall whose pillars have these screen coordinates
draw_wall(pillar1_screen_coords, pillar2_screen_coords) ==
    (IF pillar1_screen_coords.line_top.col <= pillar2_screen_coords.line_top.col
     THEN fill_wall(pillar1_screen_coords, pillar2_screen_coords)
     ELSE fill_wall(pillar2_screen_coords, pillar1_screen_coords))
    \o outline_wall(pillar1_screen_coords, pillar2_screen_coords)

\* the body of the loop over the visible walls: the mvaddch calls for one
render_wall(self, camera_entity, wall) ==
    draw_wall(calculate_pillar_coords(self, camera_entity, wall.pillar1),
              calculate_pillar_coords(self, camera_entity, wall.pillar2))

\* the loop over the visible walls, in the order given
render_walls(self, camera_entity, walls, order) ==
    [i \in 1..Len(order) |->
        FrameStep("paint", order[i],
                  render_wall(self, camera_entity, walls[order[i]]))]

\* the mvaddch calls of a frame, in the order they are made
RECURSIVE mvaddch_calls(_, _)
mvaddch_calls(frame, from) ==
    IF from > Len(frame)
    THEN <<>>
    ELSE frame[from].calls \o mvaddch_calls(frame, from + 1)

\* render_frame: its arguments, the steps it takes, and whether it panics
render_frame(self, camera_entity, walls, anchor) ==
    LET visible == visible_walls(camera_entity, walls)
    IN  IF sort_panics(camera_entity, walls, visible, anchor)
        THEN [op |-> "returned", self |-> self, camera |-> camera_entity,
              walls |-> walls, wall_anchor |-> anchor,
              panicked |-> TRUE,
              frame |-> <<FrameStep("clear", 0, <<>>)>>]
        ELSE [op |-> "returned", self |-> self, camera |-> camera_entity,
              walls |-> walls, wall_anchor |-> anchor,
              panicked |-> FALSE,
              frame |->
                  <<FrameStep("clear", 0, <<>>)>>
                  \o render_walls(self, camera_entity, walls,
                                  sort_then_reverse(camera_entity, walls,
                                                    visible, anchor))
                  \o <<FrameStep("refresh", 0, <<>>)>>]

(***************************************************************************)
(* maze/generation.rs: cells and the walls between them                    *)
(***************************************************************************)

\* MazeCoordinate { row, col }
MazeCoordinate(row, col) == [row |-> row, col |-> col]

\* MazeWall { coord1, coord2 }
MazeWall(coord1, coord2) == [coord1 |-> coord1, coord2 |-> coord2]

\* the derived Hash of MazeCoordinate: row, then col, written to the hasher;
\* the hasher is kept as the sequence of what was written to it
MazeCoordinate_hash(self, state) == state \o <<self.row, self.col>>

\* the derived Hash of a pair of coordinates: coord1, then coord2
MazeWall_hash_in_field_order(self, state) ==
    MazeCoordinate_hash(self.coord2, MazeCoordinate_hash(self.coord1, state))

\* impl PartialEq for MazeWall: eq
MazeWall_eq(self, other) ==
    \/ (self.coord1 = other.coord1 /\ self.coord2 = other.coord2)
    \/ (self.coord1 = other.coord2 /\ self.coord2 = other.coord1)

\* impl Hash for MazeWall: the coordinate of the lower row first, in one row
\* the one of the lower column
MazeWall_hash(self, state) ==
    LET coord1_is_lower ==
            IF self.coord1.row = self.coord2.row
            THEN self.coord1.col < self.coord2.col
            ELSE self.coord1.row < self.coord2.row
        lower_coord == IF coord1_is_lower THEN self.coord1 ELSE self.coord2
        higher_coord == IF coord1_is_lower THEN self.coord2 ELSE self.coord1
    IN MazeCoordinate_hash(higher_coord, MazeCoordinate_hash(lower_coord, state))

\* HashSet<MazeWall>::contains: an element of the same hash that is eq
HashSet_contains(wall_set, wall) ==
    \E member \in wall_set :
        /\ MazeWall_hash(member, <<>>) = MazeWall_hash(wall, <<>>)
        /\ MazeWall_eq(member, wall)

\* HashSet<MazeWall>::remove
HashSet_remove(wall_set, wall) ==
    {member \in wall_set :
        ~(/\ MazeWall_hash(member, <<>>) = MazeWall_hash(wall, <<>>)
          /\ MazeWall_eq(member, wall))}

\* MazeCoordinate::manhattan_to
manhattan_to(self, other) ==
    Abs(other.row - self.row) + Abs(other.col - self.col)

\* MazeCoordinate::moved
MazeCoordinate_moved(self, row_change, col_change) ==
    MazeCoordinate(self.row + row_change, self.col + col_change)

\* Maze::in_maze
in_maze(point, rows, cols) ==
    /\ point.row \in 0..(rows - 1)
    /\ point.col \in 0..(cols - 1)

\* Maze::generate_initial_walls: the cells short of the last row and column
\* get a wall to the right and a wall below, the last column walls below,
\* the last row walls to the right
generate_initial_walls(rows, cols) ==
    UNION {{MazeWall(MazeCoordinate(row, col), MazeCoordinate(row, col + 1)),
            MazeWall(MazeCoordinate(row, col), MazeCoordinate(row + 1, col))} :
              row \in 0..(rows - 2), col \in 0..(cols - 2)}
    \cup {MazeWall(MazeCoordinate(row, cols - 1), MazeCoordinate(row + 1, cols - 1)) :
              row \in 0..(rows - 2)}
    \cup {MazeWall(MazeCoordinate(rows - 1, col), MazeCoordinate(rows - 1, col + 1)) :
              col \in 0..(cols - 2)}

\* remove_walls_for_valid_maze: the pairs of row_direction and col_direction
\* the two loops let through, in the order of the loops
move_directions ==
    SelectSeq([k \in 1..9 |-> <<((k - 1) \div 3) - 1, ((k - 1) % 3) - 1>>],
              LAMBDA direction : Abs(direction[1] + direction[2]) = 1)

\* a flood fill that takes no notice of the walls
no_wall_in_the_way(wall_set, coordinate, new_coordinate) == FALSE

\* remove_walls_for_valid_maze: wall_set.contains(&intended_move)
wall_in_the_way(wall_set, coordinate, new_coordinate) ==
    HashSet_contains(wall_set, MazeWall(coordinate, new_coordinate))

\* remove_walls_for_valid_maze: may the flood move from coordinate to
\* new_coordinate
can_flood(new_coordinate, coordinate, flooded_cells, wall_set, rows, cols) ==
    /\ in_maze(new_coordinate, rows, cols)
    /\ new_coordinate \notin flooded_cells
    /\ ~wall_in_the_way(wall_set, coordinate, new_coordinate)

\* remove_walls_for_valid_maze: the two direction loops around one
\* coordinate, from direction number from on; the queue has its front first
RECURSIVE flood_around(_, _, _, _, _, _, _)
flood_around(coordinate, from, move_space_queue, flooded_cells, wall_set, rows, cols) ==
    IF from > Len(move_directions)
    THEN [move_space_queue |-> move_space_queue, flooded_cells |-> flooded_cells]
    ELSE IF can_flood(MazeCoordinate_moved(coordinate, move_directions[from][1], move_directions[from][2]), coordinate, flooded_cells, wall_set, rows, cols)
         THEN flood_around(coordinate, from + 1,
                           <<MazeCoordinate_moved(coordinate, move_directions[from][1], move_directions[from][2])>> \o move_space_queue,
                           flooded_cells \cup {MazeCoordinate_moved(coordinate, move_directions[from][1], move_directions[from][2])},
                           wall_set, rows, cols)
         ELSE flood_around(coordinate, from + 1, move_space_queue, flooded_cells,
                           wall_set, rows, cols)

RECURSIVE flood_loop(_, _, _, _, _, _)

\* the while let loop goes on with the queue and the flooded cells the
\* direction loops left
flood_next(around, wall_set, rows, cols, end) ==
    flood_loop(around.move_space_queue, around.flooded_cells, wall_set, rows, cols, end)

\* remove_walls_for_valid_maze: the while let loop, TRUE when it returns at
\* the end portal and FALSE when the queue runs empty
flood_loop(move_space_queue, flooded_cells, wall_set, rows, cols, end) ==
    IF move_space_queue = <<>>
    THEN FALSE
    ELSE IF move_space_queue[Len(move_space_queue)] = end
         THEN TRUE
         ELSE flood_next(flood_around(move_space_queue[Len(move_space_queue)], 1,
                                      SubSeq(move_space_queue, 1, Len(move_space_queue) - 1),
                                      flooded_cells, wall_set, rows, cols),
                         wall_set, rows, cols, end)

\* one pass of the outer loop of remove_walls_for_valid_maze up to the choice
\* of a wall: the flood from the start portal
flood_from_start(wall_set, rows, cols, portals) ==
    flood_loop(<<portals.start>>, {portals.start}, wall_set, rows, cols, portals.end)

\* Maze::assert_positive
assert_positive(value) == IF value <= 0 THEN "ParameterInvalid" ELSE "Ok"

\* Maze::new up to generate_initial_walls: the error it returns, or "Ok"
Maze_new_validation(rows, cols, portal_space) ==
    IF assert_positive(rows) # "Ok" THEN assert_positive(rows)
    ELSE IF assert_positive(cols) # "Ok" THEN assert_positive(cols)
    ELSE IF assert_positive(portal_space) # "Ok" THEN assert_positive(portal_space)
    ELSE IF rows + cols < portal_space THEN "MazeTooSmallForSpacing"
    ELSE "Ok"

\* Maze { start, finish, rows, cols, wall_edges }
Maze(start, finish, rows, cols, wall_edges) ==
    [start |-> start, finish |-> finish, rows |-> rows, cols |-> cols,
     wall_edges |-> wall_edges]

(***************************************************************************)
(* State machine.  camera is the camera the frame loop holds; call is the  *)
(* operation under way: "pending" with its arguments before it runs, then  *)
(* the operation's name with its arguments and its result; paints is the   *)
(* sequence of mvaddch calls it made.                                      *)
(***************************************************************************)

\* --- the camera under the keyboard, and what it sees ---

Init ==
    /\ camera = Camera_new
    /\ call = [op |-> "none"]
    /\ paints = <<>>

KeySets == {keys \in SUBSET Keycodes : Cardinality(keys) <= MaxKeysDown}

Pillars ==
    {Entity(PillarSpacing * WorldUnit * i, PillarSpacing * WorldUnit * j) :
        i \in -MaxPillarIdx..MaxPillarIdx, j \in -MaxPillarIdx..MaxPillarIdx}

\* one pass of the frame loop through move_camera; the keys are those for
\* which the new position lies on the grid: no forward motion, or a facing
\* direction along an axis
MoveCamera ==
    \E keys_pressed \in KeySets :
        /\ \/ move_camera_forward(keys_pressed) = 0
           \/ OnAxis(camera.facing_direction + move_camera_angle(keys_pressed))
        /\ LET moved == move_camera(keys_pressed, camera)
           IN  /\ Abs(moved.camera.x_pos) <= MaxCamPos
               /\ Abs(moved.camera.y_pos) <= MaxCamPos
               /\ camera' = moved.camera
               /\ call' = [op |-> "move_camera",
                           self |-> camera,
                           diff_forward |-> move_camera_forward(keys_pressed),
                           diff_angle |-> move_camera_angle(keys_pressed),
                           command |-> moved.command]
        /\ UNCHANGED paints

\* camera.can_see(pillar) for a pillar on a compass ray of the camera
CanSee ==
    \E other \in Pillars :
        /\ OnCompassRay(other.x_pos - camera.x_pos, other.y_pos - camera.y_pos)
        /\ call' = [op |-> "can_see",
                    self |-> camera,
                    other |-> other,
                    visible |-> can_see(camera, other)]
        /\ UNCHANGED <<camera, paints>>

Next == MoveCamera \/ CanSee

Spec == Init /\ [][Next]_vars

\* --- the world utilities, applied to arguments from bounded sets ---

Ranges == {Range(s, s + w) : s \in -MaxStart..MaxStart, w \in 1..MaxWidth}

Values == -MaxValue..MaxValue

Points == {Entity(x, y) : x \in -MaxCoord..MaxCoord, y \in -MaxCoord..MaxCoord}

InitUtil ==
    /\ camera = Camera_new
    /\ paints = <<>>
    /\ \/ \E original_value \in Values, range \in Ranges :
              call = [op |-> "pending", fn |-> "normalize_range",
                      original_value |-> original_value, range |-> range]
       \/ \E self \in Points, other \in Points :
              call = [op |-> "pending", fn |-> "distance_to",
                      self |-> self, other |-> other]

NormalizeRange ==
    /\ call.op = "pending"
    /\ call.fn = "normalize_range"
    /\ call' = [op |-> "normalize_range",
                first_value |-> call.original_value,
                original_value |-> call.original_value,
                range |-> call.range,
                result |-> normalize_range(call.original_value, call.range),
                renormalized |-> FALSE]
    /\ UNCHANGED <<camera, paints>>

\* the result of the last normalize_range call normalized again, same range
NormalizeAgain ==
    /\ call.op = "normalize_range"
    /\ ~call.renormalized
    /\ call' = [call EXCEPT !.original_value = call.result,
                            !.result = normalize_range(call.result, call.range),
                            !.renormalized = TRUE]
    /\ UNCHANGED <<camera, paints>>

DistanceTo ==
    /\ call.op = "pending"
    /\ call.fn = "distance_to"
    /\ call' = [op |-> "distance_to",
                self |-> call.self,
                other |-> call.other,
                distance |-> distance_to(call.self, call.other)]
    /\ UNCHANGED <<camera, paints>>

NextUtil == NormalizeRange \/ NormalizeAgain \/ DistanceTo

SpecUtil == InitUtil /\ [][NextUtil]_vars

\* --- the rasterizer, applied to arguments from bounded sets ---

Coordinates == {Coordinate(row, col) : row \in 0..MaxRow, col \in 0..MaxCol}

FillChars == {"#", "."}

InitDraw ==
    /\ camera = Camera_new
    /\ paints = <<>>
    /\ \E from \in Coordinates, to \in Coordinates, fill_char \in FillChars :
           call = [op |-> "pending", fn |-> "draw_line",
                   from |-> from, to |-> to, fill_char |-> fill_char]

DrawLine ==
    /\ call.op = "pending"
    /\ call.fn = "draw_line"
    /\ paints' = draw_line(call.from, call.to, call.fill_char)
    /\ call' = [op |-> "draw_line",
                from |-> call.from,
                to |-> call.to,
                fill_char |-> call.fill_char]
    /\ UNCHANGED camera

NextDraw == DrawLine

SpecDraw == InitDraw /\ [][NextDraw]_vars

\* --- the triangle and region fillers, applied to arguments from bounded sets ---

RegionCoordinates ==
    {Coordinate(row, col) : row \in 0..MaxRegionRow, col \in 0..MaxRegionCol}

\* overflow checks are on in a debug build and off in a release build
Builds == {"debug", "release"}

InitFill ==
    /\ camera = Camera_new
    /\ paints = <<>>
    /\ \/ \E corner1 \in Coordinates, corner2 \in Coordinates,
              corner3 \in Coordinates, fill_char \in FillChars :
              call = [op |-> "pending", fn |-> "fill_triangle",
                      corner1 |-> corner1, corner2 |-> corner2,
                      corner3 |-> corner3, fill_char |-> fill_char]
       \/ \E top_line_start \in RegionCoordinates,
              top_line_end \in RegionCoordinates,
              bottom_line_start \in RegionCoordinates,
              bottom_line_end \in RegionCoordinates :
              call = [op |-> "pending", fn |-> "fill_region_between_lines",
                      top_line_start |-> top_line_start,
                      top_line_end |-> top_line_end,
                      bottom_line_start |-> bottom_line_start,
                      bottom_line_end |-> bottom_line_end,
                      fill_char |-> "."]

FillTriangle ==
    /\ call.op = "pending"
    /\ call.fn = "fill_triangle"
    /\ LET filled == fill_triangle(call.corner1, call.corner2, call.corner3,
                                   call.fill_char)
       IN  /\ paints' = filled.calls
           /\ call' = [op |-> "fill_triangle",
                       corner1 |-> call.corner1,
                       corner2 |-> call.corner2,
                       corner3 |-> call.corner3,
                       fill_char |-> call.fill_char,
                       result |-> filled.result,
                       part |-> filled.part,
                       cause |-> filled.cause,
                       regions |-> filled.regions]
    /\ UNCHANGED camera

\* an i32 addition that overflows panics in a debug build and wraps in a
\* release build; the loop is in its last turn, so the wrapped row is unused
FillRegionBetweenLines ==
    /\ call.op = "pending"
    /\ call.fn = "fill_region_between_lines"
    /\ \E build \in Builds :
           LET region == fill_region_between_lines(
                             call.top_line_start, call.top_line_end,
                             call.bottom_line_start, call.bottom_line_end,
                             call.fill_char)
           IN  /\ paints' = region.calls
               /\ call' = [op |-> "fill_region_between_lines",
                           top_line_start |-> call.top_line_start,
                           top_line_end |-> call.top_line_end,
                           bottom_line_start |-> call.bottom_line_start,
                           bottom_line_end |-> call.bottom_line_end,
                           fill_char |-> call.fill_char,
                           result |-> IF region.overflow /\ build = "debug"
                                      THEN "panic: attempt to add with overflow"
                                      ELSE region.result]
    /\ UNCHANGED camera

NextFill == FillTriangle \/ FillRegionBetweenLines

SpecFill == InitFill /\ [][NextFill]_vars

\* --- the projection, applied to arguments from bounded sets ---

\* points on the compass rays of the origin, a whole number of world units
\* from it along each axis
ProjectedPillars ==
    {Entity(WorldUnit * i, WorldUnit * j) :
        i \in -MaxPillarDist..MaxPillarDist, j \in -MaxPillarDist..MaxPillarDist}

Scenes ==
    {Scene_with_dimensions(screen_rows, screen_cols) :
        screen_rows \in 0..MaxScreenRows, screen_cols \in 0..MaxScreenCols}

InitProject ==
    /\ camera = Camera_new
    /\ paints = <<>>
    /\ \E self \in Scenes, pillar \in ProjectedPillars :
           /\ OnCompassRay(pillar.x_pos, pillar.y_pos)
           /\ call = [op |-> "pending", fn |-> "calculate_pillar_coords",
                      self |-> self, pillar |-> pillar]

CalculatePillarCoords ==
    /\ call.op = "pending"
    /\ call.fn = "calculate_pillar_coords"
    /\ call' = [op |-> "calculate_pillar_coords",
                self |-> call.self,
                camera |-> camera,
                pillar |-> call.pillar,
                coords |-> calculate_pillar_coords(call.self, camera,
                                                   call.pillar)]
    /\ UNCHANGED <<camera, paints>>

NextProject == CalculatePillarCoords

SpecProject == InitProject /\ [][NextProject]_vars

\* --- render_frame, applied to cameras, scenes and wall lists from bounded sets ---

\* the camera at the origin after whole eighth turns
CameraPoses ==
    {[Camera_new EXCEPT !.facing_direction = k * (FRAC_PI_2 \div 2)] :
        k \in 0..MaxTurn}

\* the pillars on the compass rays of the origin
RayPillars ==
    {pillar \in {Entity(PillarSpacing * WorldUnit * i, PillarSpacing * WorldUnit * j) :
                    i \in -MaxWallIdx..MaxWallIdx, j \in -MaxWallIdx..MaxWallIdx} :
        OnCompassRay(pillar.x_pos, pillar.y_pos)}

\* two pillars next to each other on the pillar grid, the first of them
\* the one of the lower row or, in one row, of the lower column
Adjacent(pillar1, pillar2) ==
    /\ Abs(pillar2.x_pos - pillar1.x_pos) <= PillarSpacing * WorldUnit
    /\ Abs(pillar2.y_pos - pillar1.y_pos) <= PillarSpacing * WorldUnit
    /\ \/ pillar1.y_pos < pillar2.y_pos
       \/ pillar1.y_pos = pillar2.y_pos /\ pillar1.x_pos < pillar2.x_pos

Walls ==
    {wall \in {Wall_from_pillars(pillar1, pillar2) :
                  pillar1 \in RayPillars, pillar2 \in RayPillars} :
        Adjacent(wall.pillar1, wall.pillar2)}

WallLists == UNION {[1..n -> Walls] : n \in 0..MaxWalls}

RenderScenes == {Scene_with_dimensions(SceneRows, SceneCols)}

InitRender ==
    /\ camera \in CameraPoses
    /\ paints = <<>>
    /\ \E self \in RenderScenes, walls \in WallLists, anchor \in WallAnchors :
           call = [op |-> "pending", fn |-> "render_frame",
                   self |-> self, walls |-> walls, wall_anchor |-> anchor]

RenderFrame ==
    /\ call.op = "pending"
    /\ call.fn = "render_frame"
    /\ call' = [render_frame(call.self, camera, call.walls, call.wall_anchor)
                    EXCEPT !.op = "render_frame"]
    /\ paints' = mvaddch_calls(call'.frame, 1)
    /\ UNCHANGED camera

NextRender == RenderFrame

SpecRender == InitRender /\ [][NextRender]_vars

\* --- MazeWall equality and hashing, applied to pairs of walls from a bounded set ---

\* the cells of a grid of MaxCell + 1 rows and columns
WallCoordinates ==
    {MazeCoordinate(row, col) : row \in 0..MaxCell, col \in 0..MaxCell}

\* every wall between two of them, maze neighbours or not
MazeWalls ==
    {MazeWall(coord1, coord2) : coord1 \in WallCoordinates, coord2 \in WallCoordinates}

InitWall ==
    /\ camera = Camera_new
    /\ paints = <<>>
    /\ \E first_wall \in MazeWalls, second_wall \in MazeWalls :
           call = [op |-> "pending", fn |-> "verify_equality_and_hashing",
                   first_wall |-> first_wall, second_wall |-> second_wall]

\* maze_wall_tests::verify_equality_and_hashing on one pair of walls:
\* both comparisons, and each wall hashed into a new hasher
VerifyEqualityAndHashing ==
    /\ call.op = "pending"
    /\ call.fn = "verify_equality_and_hashing"
    /\ call' = [op |-> "verify_equality_and_hashing",
                first_wall |-> call.first_wall,
                second_wall |-> call.second_wall,
                first_eq_second |-> MazeWall_eq(call.first_wall, call.second_wall),
                second_eq_first |-> MazeWall_eq(call.second_wall, call.first_wall),
                first_wall_hasher |-> MazeWall_hash(call.first_wall, <<>>),
                second_wall_hasher |-> MazeWall_hash(call.second_wall, <<>>)]
    /\ UNCHANGED <<camera, paints>>

NextWall == VerifyEqualityAndHashing

SpecWall == InitWall /\ [][NextWall]_vars

\* --- Maze::new, applied to sizes and portal spacings from bounded sets ---

\* what Option::unwrap panics with
UnwrapOnNone == "panic: called Option::unwrap() on a None value"

InitMaze ==
    /\ camera = Camera_new
    /\ paints = <<>>
    /\ \E rows \in 0..MaxMazeRows, cols \in 0..MaxMazeCols, portal_space \in 0..MaxPortalSpace :
           call = [op |-> "pending", fn |-> "Maze_new",
                   rows |-> rows, cols |-> cols, portal_space |-> portal_space]

\* Maze::new from its entry to the call of select_portal_coordinates
MazeNew ==
    /\ call.op = "pending"
    /\ call.fn = "Maze_new"
    /\ call' = IF Maze_new_validation(call.rows, call.cols, call.portal_space) = "Ok"
               THEN [op |-> "select_portal_coordinates",
                     rows |-> call.rows, cols |-> call.cols,
                     portal_space |-> call.portal_space,
                     initial_walls |-> generate_initial_walls(call.rows, call.cols)]
               ELSE [op |-> "Maze_new",
                     rows |-> call.rows, cols |-> call.cols,
                     portal_space |-> call.portal_space,
                     result |-> Maze_new_validation(call.rows, call.cols, call.portal_space)]
    /\ UNCHANGED <<camera, paints>>

\* one pass of the loop of select_portal_coordinates: two random cells, taken
\* when they are portal_space apart
SelectPortalCoordinates ==
    /\ call.op = "select_portal_coordinates"
    /\ \E point1_row \in 0..(call.rows - 1), point1_col \in 0..(call.cols - 1),
          point2_row \in 0..(call.rows - 1), point2_col \in 0..(call.cols - 1) :
           call' = IF manhattan_to(MazeCoordinate(point1_row, point1_col),
                                   MazeCoordinate(point2_row, point2_col)) >= call.portal_space
                   THEN [op |-> "remove_walls_for_valid_maze",
                         rows |-> call.rows, cols |-> call.cols,
                         wall_set |-> call.initial_walls,
                         portals |-> [start |-> MazeCoordinate(point1_row, point1_col),
                                      end |-> MazeCoordinate(point2_row, point2_col)]]
                   ELSE call
    /\ UNCHANGED <<camera, paints>>

\* one pass of the outer loop of remove_walls_for_valid_maze: the flood, then
\* the return to Maze::new, which returns the maze, or the removal of a random
\* wall
RemoveWallsForValidMaze ==
    /\ call.op = "remove_walls_for_valid_maze"
    /\ IF flood_from_start(call.wall_set, call.rows, call.cols, call.portals)
       THEN call' = [op |-> "Maze_new", result |-> "Ok",
                     maze |-> Maze(call.portals.start, call.portals.end,
                                   call.rows, call.cols, call.wall_set)]
       ELSE IF call.wall_set = {}
            THEN call' = [op |-> "Maze_new", result |-> UnwrapOnNone,
                          rows |-> call.rows, cols |-> call.cols,
                          portals |-> call.portals]
            ELSE \E chosen_wall \in call.wall_set :
                     call' = [call EXCEPT !.wall_set = HashSet_remove(call.wall_set, chosen_wall)]
    /\ UNCHANGED <<camera, paints>>

NextMaze == MazeNew \/ SelectPortalCoordinates \/ RemoveWallsForValidMaze

SpecMaze == InitMaze /\ [][NextMaze]_vars

\* the pass of the loop of select_portal_coordinates that returns: thread_rng
\* draws every pair of cells with a positive probability, so a pair that is
\* far enough apart, where there is one, is drawn in the end
SelectPortalCoordinatesReturns ==
    /\ SelectPortalCoordinates
    /\ call'.op = "remove_walls_for_valid_maze"

\* Maze::new running on: no loop stops between two passes, and the random
\* draws do not avoid the acceptable pairs for ever
SpecMazeFair ==
    /\ SpecMaze
    /\ WF_vars(MazeNew)
    /\ WF_vars(SelectPortalCoordinatesReturns)
    /\ WF_vars(RemoveWallsForValidMaze)

(***************************************************************************)
(* Vocabulary of the properties                                            *)
(***************************************************************************)

\* the square of the Euclidean distance between two entities
SquaredEuclidean(a, b) ==
    (b.x_pos - a.x_pos) * (b.x_pos - a.x_pos)
        + (b.y_pos - a.y_pos) * (b.y_pos - a.y_pos)

\* `other` lies on the ray that leaves `cam` in its facing direction
OnFacingRay(cam, other) ==
    /\ SquaredEuclidean(cam, other) > 0
    /\ Rem(cam.facing_direction
             - atan2(other.y_pos - cam.y_pos, other.x_pos - cam.x_pos),
           TWO_PI) = 0

\* the cells the recorded mvaddch calls touch
PaintedCells == {Coordinate(paints[i].row, paints[i].col) : i \in 1..Len(paints)}

\* three coordinates on one straight line
Collinear(a, b, c) ==
    (b.col - a.col) * (c.row - a.row) = (c.col - a.col) * (b.row - a.row)

SquaredSpan(a, b) ==
    (b.col - a.col) * (b.col - a.col) + (b.row - a.row) * (b.row - a.row)

\* the two of three collinear coordinates that lie farthest apart
ExtremeCorners(a, b, c) ==
    CHOOSE pair \in {<<a, b>>, <<a, c>>, <<b, c>>} :
        \A other \in {<<a, b>>, <<a, c>>, <<b, c>>} :
            SquaredSpan(pair[1], pair[2]) >= SquaredSpan(other[1], other[2])

\* two of three coordinates are one point, and the third lies in another
\* row and another column
DoubledCornerOffAxis(a, b, c) ==
    \E p \in {a, b, c}, q \in {a, b, c} :
        /\ p.row # q.row
        /\ p.col # q.col
        /\ {a, b, c} = {p, q}

\* the leftmost and rightmost columns of an edge
LeftmostCol(start, end) == Min(start.col, end.col)
RightmostCol(start, end) == Max(start.col, end.col)

\* the row an edge has at its leftmost and at its rightmost column, as
\* fill_region_between_lines reads them
LeftmostRow(start, end) == IF start.col > end.col THEN end.row ELSE start.row
RightmostRow(start, end) == IF start.col > end.col THEN start.row ELSE end.row

\* the edges of the recorded fill_region_between_lines call
EdgesAligned ==
    /\ LeftmostCol(call.top_line_start, call.top_line_end)
           = LeftmostCol(call.bottom_line_start, call.bottom_line_end)
    /\ RightmostCol(call.top_line_start, call.top_line_end)
           = RightmostCol(call.bottom_line_start, call.bottom_line_end)

TopBelowBottom ==
    \/ LeftmostRow(call.top_line_start, call.top_line_end)
           > LeftmostRow(call.bottom_line_start, call.bottom_line_end)
    \/ RightmostRow(call.top_line_start, call.top_line_end)
           > RightmostRow(call.bottom_line_start, call.bottom_line_end)

\* the steps of the recorded frame that make an mvaddch call for wall i
WallPaints(i) ==
    {k \in 1..Len(call.frame) :
        /\ call.frame[k].fn = "paint"
        /\ call.frame[k].wall = i
        /\ call.frame[k].calls # <<>>}

\* the steps of the recorded frame that make an mvaddch call
Paints == {k \in 1..Len(call.frame) : call.frame[k].calls # <<>>}

\* the steps of the recorded frame that call one ncurses function
CallsOf(fn) == {k \in 1..Len(call.frame) : call.frame[k].fn = fn}

\* wall i of the recorded frame has a pillar the camera can see
WallVisible(i) ==
    \/ can_see(call.camera, call.walls[i].pillar1)
    \/ can_see(call.camera, call.walls[i].pillar2)

\* the square of the distance from the camera to wall i of the recorded frame
WallSquaredDistance(i) ==
    SquaredEuclidean(call.camera,
                     Wall_position(call.walls[i], call.wall_anchor))

\* the cells a and b are 4-adjacent cells of the grid with no wall of
\* wall_edges between them
Crossable(a, b, rows, cols, wall_edges) ==
    /\ a.row \in 0..(rows - 1) /\ a.col \in 0..(cols - 1)
    /\ b.row \in 0..(rows - 1) /\ b.col \in 0..(cols - 1)
    /\ Abs(a.row - b.row) + Abs(a.col - b.col) = 1
    /\ ~\E wall \in wall_edges : {wall.coord1, wall.coord2} = {a, b}

\* the cells that paths from the cells of reached lead to
RECURSIVE PathClosure(_, _, _, _)
PathClosure(reached, rows, cols, wall_edges) ==
    IF \A a \in reached : \A b \in {MazeCoordinate(row, col) : row \in 0..(rows - 1), col \in 0..(cols - 1)} :
           Crossable(a, b, rows, cols, wall_edges) => b \in reached
    THEN reached
    ELSE PathClosure(reached \cup {b \in {MazeCoordinate(row, col) : row \in 0..(rows - 1), col \in 0..(cols - 1)} :
                                      \E a \in reached : Crossable(a, b, rows, cols, wall_edges)},
                     rows, cols, wall_edges)

\* the cells reachable from start
ReachableCells(start, rows, cols, wall_edges) ==
    PathClosure({start}, rows, cols, wall_edges)

\* the rows the recorded mvaddch calls touch in column col
PaintedRows(col) ==
    {paints[i].row : i \in {j \in 1..Len(paints) : paints[j].col = col}}

\* the row of the first mvaddch call draw_line makes in column col for the
\* line between start and end
DrawLineFirstRow(start, end, col) ==
    draw_line(start, end, ".")[
        CHOOSE i \in 1..Len(draw_line(start, end, ".")) :
            /\ draw_line(start, end, ".")[i].col = col
            /\ \A j \in 1..(i - 1) : draw_line(start, end, ".")[j].col # col].row

(***************************************************************************)
(* Properties                                                              *)
(***************************************************************************)

\* C1: distance_to returns the Euclidean distance of the two entities: the
\* result is a number whose square is dx*dx + dy*dy.
C1_DistanceIsEuclidean ==
    call.op = "distance_to" =>
        /\ ~call.distance.nan
        /\ call.distance.sq = SquaredEuclidean(call.self, call.other)

\* C2: can_see is false for every entity whose Euclidean distance from the
\* camera is at least horizon_distance.
C2_BeyondHorizonUnseen ==
    (/\ call.op = "can_see"
     /\ SquaredEuclidean(call.self, call.other)
            >= call.self.horizon_distance * call.self.horizon_distance)
        => ~call.visible

\* C3: can_see is true for every entity on the camera's facing ray at a
\* distance below horizon_distance.
C3_FacingRaySeen ==
    (/\ call.op = "can_see"
     /\ OnFacingRay(call.self, call.other)
     /\ SquaredEuclidean(call.self, call.other)
            < call.self.horizon_distance * call.self.horizon_distance)
        => call.visible

\* C4: update_cam(0, 0) returns a camera with the x, y and facing_direction
\* of the receiver.
C4_UpdateCamZeroIsIdentity ==
    (/\ call.op = "move_camera"
     /\ call.diff_forward = 0
     /\ call.diff_angle = 0)
        => /\ camera.x_pos = call.self.x_pos
           /\ camera.y_pos = call.self.y_pos
           /\ camera.facing_direction = call.self.facing_direction

\* C5: after any sequence of update_cam calls from Camera::new the facing
\* direction lies in [0, 2*pi).
C5_FacingInHalfOpenTurn ==
    /\ 0 <= camera.facing_direction
    /\ camera.facing_direction < TWO_PI

\* C6: normalize_range(end, start..end) returns start.
C6_EndWrapsToStart ==
    (/\ call.op = "normalize_range"
     /\ ~call.renormalized
     /\ call.original_value = call.range.end)
        => call.result = call.range.start

\* C7: normalize_range is idempotent: normalizing a result of
\* normalize_range again, over the same non-empty range, returns it unchanged.
C7_NormalizeIdempotent ==
    (call.op = "normalize_range" /\ call.renormalized)
        => call.result = call.original_value

\* a value beyond the range end was normalized, and its result normalized again
C7_Witness ==
    /\ call.op = "normalize_range"
    /\ call.renormalized
    /\ call.first_value > call.range.end
    /\ call.original_value # call.first_value

\* C8: normalize_range moves a value by a whole number of range widths; a
\* value k above end (0 < k < width) goes to start + k, and a value k below
\* start (0 < k < width) goes to end - k.
C8_WrapsByWholeWidths ==
    (call.op = "normalize_range" /\ ~call.renormalized) =>
        LET width == call.range.end - call.range.start
            above == call.original_value - call.range.end
            below == call.range.start - call.original_value
        IN  /\ Rem(call.result - call.original_value, width) = 0
            /\ (0 < above /\ above < width)
                   => call.result = call.range.start + above
            /\ (0 < below /\ below < width)
                   => call.result = call.range.end - below

\* the unit test wraps_around_beginning: normalize_range(0.0, 1.0..21.0) is 20.0
C8_Witness ==
    /\ call.op = "normalize_range"
    /\ ~call.renormalized
    /\ call.original_value = 0
    /\ call.range = Range(1, 21)
    /\ call.result = 20

\* C9 as stated: for two coordinates sharing a column, draw_line paints
\* exactly the rows strictly between the two endpoint rows.
C9_VerticalStrictlyBetween ==
    (call.op = "draw_line" /\ call.from.col = call.to.col) =>
        PaintedCells =
            {Coordinate(row, call.from.col) :
                row \in (Min(call.from.row, call.to.row) + 1)
                            ..(Max(call.from.row, call.to.row) - 1)}

\* C9 as amended: for two coordinates sharing a column, draw_line paints
\* exactly the rows from the smaller endpoint row up to, and not including,
\* the larger endpoint row, each once.
C9_VerticalHalfOpen ==
    (call.op = "draw_line" /\ call.from.col = call.to.col) =>
        /\ PaintedCells =
               {Coordinate(row, call.from.col) :
                   row \in Min(call.from.row, call.to.row)
                               ..(Max(call.from.row, call.to.row) - 1)}
        /\ Len(paints) = Abs(call.to.row - call.from.row)

\* a line between rows 0 and 5 of column 0 painted 5 cells
C9_Witness ==
    /\ call.op = "draw_line"
    /\ call.from = Coordinate(0, 0)
    /\ call.to = Coordinate(5, 0)
    /\ Len(paints) = 5

\* C10: every cell draw_line(from, to, fill_char) paints is painted with
\* fill_char.
C10_PaintsUseFillChar ==
    call.op = "draw_line" =>
        \A i \in 1..Len(paints) : paints[i].ch = call.fill_char

C12_MisalignedEdgesRejected ==
    (call.op = "fill_region_between_lines" /\ ~EdgesAligned) =>
        /\ call.result = "TopAndBottomDoNotAlign"
        /\ paints = <<>>

\* edges that do not align and whose top lies below the bottom as well
C12_Witness ==
    /\ call.op = "fill_region_between_lines"
    /\ ~EdgesAligned
    /\ TopBelowBottom
    /\ call.result = "TopAndBottomDoNotAlign"

\* C13: for column-aligned edges fill_region_between_lines returns
\* TopIsBelowBottom, and paints nothing, whenever the top row is greater
\* than the bottom row at the shared left column or at the shared right
\* column; it returns Ok when the top row is at most the bottom row at both.
C13_AlignedEdgesCheckedByRow ==
    (call.op = "fill_region_between_lines" /\ EdgesAligned) =>
        IF TopBelowBottom
        THEN call.result = "TopIsBelowBottom" /\ paints = <<>>
        ELSE call.result = "Ok"

\* C14: in one render_frame call, for every pair of visible walls at
\* different distances from the camera, every paint call of the farther wall
\* is made before any paint call of the nearer wall.
C14_FartherWallPaintedFirst ==
    call.op = "render_frame" =>
        \A i, j \in 1..Len(call.walls) :
            (/\ WallVisible(i)
             /\ WallVisible(j)
             /\ WallSquaredDistance(i) > WallSquaredDistance(j))
                => \A far \in WallPaints(i), near \in WallPaints(j) : far < near

\* C15: every render_frame call makes exactly one clear call, before any
\* paint call, and exactly one refresh call, after every paint call.
C15_OneClearOneCommit ==
    call.op = "render_frame" =>
        /\ Cardinality(CallsOf("clear")) = 1
        /\ Cardinality(CallsOf("refresh")) = 1
        /\ \A painted \in Paints :
               /\ \A cleared \in CallsOf("clear") : cleared < painted
               /\ \A committed \in CallsOf("refresh") : painted < committed

\* C16: render_frame makes paint calls for a wall exactly when the camera
\* can see at least one of the wall's two pillars, and leaves the wall list
\* and the camera as they were.
C16_PaintsIffVisible ==
    call.op = "render_frame" =>
        /\ \A i \in 1..Len(call.walls) : (WallPaints(i) # {}) <=> WallVisible(i)
        /\ camera = call.camera

\* C17: render_frame never aborts the process: it runs to completion and
\* reaches the refresh, and the sort key of every visible wall is not NaN.
C17_RenderFrameCompletes ==
    call.op = "render_frame" =>
        /\ ~call.panicked
        /\ call.frame[Len(call.frame)].fn = "refresh"
        /\ \A i \in 1..Len(call.walls) :
               WallVisible(i) =>
                   ~sort_key(call.camera, call.walls[i], call.wall_anchor).nan

\* C18 as stated: for the camera at the origin facing 0 with field of view
\* pi/2, fill-screen distance 2 and horizon 15, and a pillar at (5, 0),
\* calculate_pillar_coords returns column screen_cols / 2 and rows with
\* top < screen_rows / 2 < bottom, for every screen size.
C18_PillarAheadIsCentred ==
    (/\ call.op = "calculate_pillar_coords"
     /\ call.camera = Camera_new
     /\ call.pillar = Entity(5 * WorldUnit, 0)) =>
        /\ call.coords.line_top.col = call.self.screen_cols \div 2
        /\ call.coords.line_bottom.col = call.self.screen_cols \div 2
        /\ call.coords.line_top.row < call.self.screen_rows \div 2
        /\ call.self.screen_rows \div 2 < call.coords.line_bottom.row

\* C18 as amended: the same, for every screen size of at least 4 rows.
C18_PillarAheadIsCentredFromFourRows ==
    (/\ call.op = "calculate_pillar_coords"
     /\ call.camera = Camera_new
     /\ call.pillar = Entity(5 * WorldUnit, 0)
     /\ call.self.screen_rows >= 4) =>
        /\ call.coords.line_top.col = call.self.screen_cols \div 2
        /\ call.coords.line_bottom.col = call.self.screen_cols \div 2
        /\ call.coords.line_top.row < call.self.screen_rows \div 2
        /\ call.self.screen_rows \div 2 < call.coords.line_bottom.row

\* the pillar at (5, 0) projected onto a screen of 8 rows and 6 columns:
\* column 3, rows 0 to 7
C18_Witness ==
    /\ call.op = "calculate_pillar_coords"
    /\ call.camera = Camera_new
    /\ call.pillar = Entity(5 * WorldUnit, 0)
    /\ call.self = Scene_with_dimensions(8, 6)
    /\ call.coords.line_top = Coordinate(0, 3)
    /\ call.coords.line_bottom = Coordinate(7, 3)

\* C19: MazeWall equality and hashing ignore the order of the coordinates:
\* a wall and the wall of the same two cells exchanged are equal in both
\* directions and write the same sequence to the hasher, and any two walls
\* that compare equal write the same sequence to the hasher.
C19_WallIgnoresCoordinateOrder ==
    call.op = "verify_equality_and_hashing" =>
        /\ (call.second_wall = MazeWall(call.first_wall.coord2, call.first_wall.coord1)) =>
               /\ call.first_eq_second
               /\ call.second_eq_first
               /\ call.first_wall_hasher = call.second_wall_hasher
        /\ call.first_eq_second => call.first_wall_hasher = call.second_wall_hasher
        /\ call.second_eq_first => call.first_wall_hasher = call.second_wall_hasher

\* the wall between (1,0) and (0,1) compared with the wall between (0,1) and
\* (1,0): equal, and both write 0, 1, 1, 0
C19_Witness ==
    /\ call.op = "verify_equality_and_hashing"
    /\ call.first_wall = MazeWall(MazeCoordinate(1, 0), MazeCoordinate(0, 1))
    /\ call.second_wall = MazeWall(MazeCoordinate(0, 1), MazeCoordinate(1, 0))
    /\ call.first_eq_second
    /\ call.second_eq_first
    /\ call.first_wall_hasher = <<0, 1, 1, 0>>
    /\ call.second_wall_hasher = <<0, 1, 1, 0>>

\* C20: whenever Maze::new returns Ok, the finish cell is reachable from the
\* start cell by a path of 4-adjacent cells of the grid that crosses no wall
\* of wall_edges; and wall removal never runs out of walls before such a path
\* exists: no wall set is empty without the path, and the unwrap on the
\* chosen wall never panics.
C20_FinishReachableAndWallsSuffice ==
    /\ (call.op = "Maze_new" /\ call.result = "Ok") =>
           call.maze.finish \in ReachableCells(call.maze.start, call.maze.rows, call.maze.cols, call.maze.wall_edges)
    /\ (call.op = "remove_walls_for_valid_maze" /\ call.wall_set = {}) =>
           call.portals.end \in ReachableCells(call.portals.start, call.rows, call.cols, call.wall_set)
    /\ call.op = "Maze_new" => call.result # UnwrapOnNone

\* a 2 by 2 maze from corner (0,0) to corner (1,1), returned with the walls
\* below (0,0) and right of (1,0) standing: the path runs over (0,1)
C20_Witness ==
    /\ call.op = "Maze_new"
    /\ call.result = "Ok"
    /\ call.maze.rows = 2
    /\ call.maze.cols = 2
    /\ call.maze.start = MazeCoordinate(0, 0)
    /\ call.maze.finish = MazeCoordinate(1, 1)
    /\ call.maze.wall_edges =
           {MazeWall(MazeCoordinate(0, 0), MazeCoordinate(1, 0)),
            MazeWall(MazeCoordinate(1, 0), MazeCoordinate(1, 1))}

\* C21: for two coordinates of different columns, draw_line paints at least
\* one cell in every column from the smaller one to the larger one, no cell
\* in any other column, and both endpoint cells.
C21_EveryColumnAndBothEndpoints ==
    (call.op = "draw_line" /\ call.from.col # call.to.col) =>
        /\ {cell.col : cell \in PaintedCells} =
               Min(call.from.col, call.to.col)..Max(call.from.col, call.to.col)
        /\ call.from \in PaintedCells
        /\ call.to \in PaintedCells

\* C22: fill_region_between_lines tracks each edge as draw_line steps along
\* it: when the edges span more than one column, the rows it fills in a
\* column run from the row draw_line first paints in that column for the top
\* edge to the row draw_line first paints there for the bottom edge, which at
\* the last column are the rows of the edges' right endpoints.
C22_RegionEdgesFollowDrawLine ==
    (/\ call.op = "fill_region_between_lines"
     /\ call.result = "Ok"
     /\ call.top_line_start.col # call.top_line_end.col) =>
        /\ \A col \in LeftmostCol(call.top_line_start, call.top_line_end)
                        ..RightmostCol(call.top_line_start, call.top_line_end) :
               PaintedRows(col) =
                   DrawLineFirstRow(call.top_line_start, call.top_line_end, col)
                     ..DrawLineFirstRow(call.bottom_line_start, call.bottom_line_end, col)
        /\ PaintedRows(RightmostCol(call.top_line_start, call.top_line_end)) =
               RightmostRow(call.top_line_start, call.top_line_end)
                 ..RightmostRow(call.bottom_line_start, call.bottom_line_end)

\* C23: fill_triangle returns Ok for every three corners: the edges it hands
\* to fill_region_between_lines span the same columns and the top one is not
\* below the bottom one at either end, so the region filler reports neither
\* of its errors.
C23_FillTriangleAlwaysOk ==
    call.op = "fill_triangle" =>
        /\ call.result = "Ok"
        /\ call.cause = "Ok"

\* a triangle with corners in three columns, filled as two regions: the
\* corner of the middle column lies 5 rows below the long edge
C23_Witness ==
    /\ call.op = "fill_triangle"
    /\ call.corner1 = Coordinate(5, 1)
    /\ call.corner2 = Coordinate(1, 3)
    /\ call.corner3 = Coordinate(0, 0)
    /\ call.regions = 2
    /\ call.result = "Ok"
    /\ mvaddch(5, 1, call.fill_char) \in {paints[i] : i \in 1..Len(paints)}

\* C24: every cell draw_line paints lies in the bounding box of its two
\* endpoints, whatever the slope: its row between the smaller and the larger
\* endpoint row, its column between the smaller and the larger endpoint
\* column.
C24_PaintsInsideBoundingBox ==
    call.op = "draw_line" =>
        \A cell \in PaintedCells :
            /\ cell.row \in Min(call.from.row, call.to.row)..Max(call.from.row, call.to.row)
            /\ cell.col \in Min(call.from.col, call.to.col)..Max(call.from.col, call.to.col)

\* C25: Maze::new terminates for every rows, cols and portal_space that pass
\* its validation: portal selection finds two cells at least portal_space
\* apart, and wall removal returns.
C25_MazeNewTerminates ==
    /\ (call.op = "pending"
        /\ Maze_new_validation(call.rows, call.cols, call.portal_space) = "Ok")
           ~> (call.op = "Maze_new")
    /\ (call.op = "select_portal_coordinates")
           ~> (call.op = "remove_walls_for_valid_maze")
    /\ (call.op = "remove_walls_for_valid_maze") ~> (call.op = "Maze_new")

====
